---- MODULE Spec2Model ----
(***************************************************************************)
(* Model of pocs/state/machine.py: PanStateMachine, the state machine of   *)
(* PANOPTES built on the `transitions` library (Machine / GraphMachine).   *)
(*                                                                         *)
(* The constructor with the ways it can fail (a table file that cannot be  *)
(* loaded, missing keys, state modules that cannot be resolved), then:     *)
(* the caller's inline state table, the Python list objects that hold the  *)
(* transitions' conditions (a heap, so that aliasing is visible), the      *)
(* Transition objects the library builds at construction, and the run loop *)
(* with one invocation of a trigger split into the steps the library takes *)
(* (Event.trigger, Transition.execute: conditions, before_state_change,    *)
(* exit, set_state, enter callbacks, after_state_change).                  *)
(***************************************************************************)
EXTENDS Integers, Sequences, FiniteSets, TLC

VARIABLES
    heap,         \* Python list objects: heap[r] is the content of list r
    table,        \* the caller's state_machine_table (self._state_machine_table)
    env,          \* what the constructor finds outside the table: how the
                  \* table is given, and the module of every state
    machine,      \* the library's Transition objects, in add_transition order
    state,        \* self.state, the model's current state (library-owned)
    next_state,   \* self._next_state
    is_running,   \* self._is_running
    raised,       \* the exception that left __init__ or run(), else "none"
    pc,           \* position of the caller / of run()
    call_method,  \* run(): the value _lookup_trigger returned
    caller,       \* run(): the trigger about to be invoked
    tr,           \* Event.trigger: index in machine of the transition being tried
    ci,           \* Transition.execute / State.enter: conditions (then enter
                  \* callbacks) run so far
    \* history variables (observations, never read by the program)
    table0,       \* the table as the caller wrote it
    nmachines,    \* machines constructed from the table so far
    requested,    \* next_state as the caller left it when run() was called
    round,        \* "none", then "first" in run()'s first iteration, then "later"
    lookup_dest,  \* the next_state the last _lookup_trigger read
    evald,        \* conditions evaluated for the transition being tried
    steps,        \* what ran for the transition being tried, in order
    state_before, \* self.state when the current invocation started
    stop_during,  \* "no", or when stop_machine was first called during the
                  \* current invocation: "before_change" or "after_change"
    faulted,      \* the current invocation raised and run() caught it
    succeeded,    \* the current invocation returned True
    stop_called,  \* stop_machine was called since run() was entered
    mutated       \* transition whose condition list the caller edited (0: none)

prog == <<heap, table, env, machine, state, next_state, is_running, raised, pc,
          call_method, caller, tr, ci>>
hist == <<table0, nmachines, requested, round, lookup_dest, evald, steps,
          state_before, stop_during, faulted, succeeded, stop_called,
          mutated>>
vars == <<prog, hist>>
prog_but_pc == <<heap, table, env, machine, state, next_state, is_running,
                 raised, call_method, caller, tr, ci>>

\* ------------------------------------------------------------------ bounds
MaxTransitions == 2     \* transitions in a table
MaxMachines == 2        \* machines constructed from one inline table

\* ------------------------------------------------------------------ values
NoneVal == "None"
StateNames == <<"ready", "parking">>
DeclaredStates == {StateNames[i] : i \in 1..Len(StateNames)}
\* what an on_enter behaviour may assign to next_state
NextChoices == DeclaredStates \cup {NoneVal, "bogus"}

Absent == [kind |-> "absent", s |-> "", ref |-> 0]
Str(x) == [kind |-> "str", s |-> x, ref |-> 0]
ListObj(r) == [kind |-> "list", s |-> "", ref |-> r]

\* the two list objects the caller's table may use for `conditions`
ListA == ListObj(1)
ListB == ListObj(2)
InitHeap == << <<>>, <<"is_dark">> >>

RawTransition(t, s, d, c) == [trigger |-> t, source |-> s, dest |-> d, conditions |-> c]
RawTransitions ==
    { RawTransition("park", "ready", "parking", ListA),
      RawTransition("get_ready", "parking", "ready", Str("is_dark")),
      RawTransition("observe", "ready", "ready", Absent),
      RawTransition("get_ready", "ready", "ready", ListB),
      \* a transition into a state the table does not declare
      RawTransition("park", "parking", "sleeping", ListA) }

SeqsUpTo(S, n) == UNION {[1..k -> S] : k \in 1..n}
\* the keys a table must have; `initial` is optional: table.get('initial')
\* is None for a table without it
RequiredKeys == {"states", "transitions"}
Tables ==
    { [keys |-> RequiredKeys, states |-> StateNames, transitions |-> ts,
       initial |-> i] :
        ts \in SeqsUpTo(RawTransitions, MaxTransitions),
        i \in DeclaredStates \cup {NoneVal} }

\* the table of the class's example: park from ready to parking
SimpleTable ==
    [keys |-> RequiredKeys, states |-> StateNames,
     transitions |-> <<RawTransition("park", "ready", "parking", ListA)>>,
     initial |-> "ready"]
\* the same with some of its keys left out
BrokenTables == {[SimpleTable EXCEPT !.keys = k] : k \in SUBSET RequiredKeys}

\* how the table reaches __init__: as a dict ("inline"), or as a name whose
\* yaml file is loaded ("file"), cannot be opened, or cannot be parsed
Resources == {"inline", "file", "unreadable", "unparsable"}
\* what load_module finds for pocs.state.states.<table>.<state>: a module with
\* on_enter, a module without it, or nothing
ModuleKinds == {"on_enter", "no_on_enter", "missing"}
AllResolved == [s \in DeclaredStates |-> "on_enter"]
Envs == [resource : Resources, modules : [DeclaredStates -> ModuleKinds]]

\* ------------------------------------------------- construction (__init__)
\* list.insert(0, x) on the list object r
ListInsertFirst(h, r, x) == [h EXCEPT ![r] = <<x>> \o @]
ListAppend(h, r, x) == [h EXCEPT ![r] = Append(@, x)]

\* transition.get('conditions', []): the value under the key, or a new empty list
TransitionGetConditions(h, t) ==
    IF t.conditions.kind = "absent"
    THEN [heap |-> Append(h, <<>>), val |-> ListObj(Len(h) + 1)]
    ELSE [heap |-> h, val |-> t.conditions]

\* listify returning its list argument itself instead of a new list
ListifyAlias(h, obj) ==
    IF obj.kind = "list"
    THEN [heap |-> h, ref |-> obj.ref]
    ELSE [heap |-> Append(h, <<obj.s>>), ref |-> Len(h) + 1]

\* utils.listify(obj): a list holding obj's members (a lone value is wrapped);
\* the result is a newly created list
Listify(h, obj) ==
    IF obj.kind = "list"
    THEN [heap |-> Append(h, h[obj.ref]), ref |-> Len(h) + 1]
    ELSE [heap |-> Append(h, <<obj.s>>), ref |-> Len(h) + 1]

\* check_safety added at the end of the list instead of the front
InsertCheckSafetyLast(h, r) == ListAppend(h, r, "check_safety")

\* conditions.insert(1, 'check_safety'): second, unless the list was empty
InsertCheckSafetySecond(h, r) ==
    [h EXCEPT ![r] = IF @ = <<>> THEN <<"check_safety">>
                     ELSE <<@[1], "check_safety">> \o SubSeq(@, 2, Len(@))]

\* conditions.insert(0, 'check_safety')
InsertCheckSafety(h, r) == ListInsertFirst(h, r, "check_safety")

\* _load_transition(transition): the heap and the (same, mutated) dict
LoadTransition(h, t) ==
    LET g == TransitionGetConditions(h, t)
        l == Listify(g.heap, g.val)
    IN  [heap |-> InsertCheckSafety(l.heap, l.ref),
         transition |-> [t EXCEPT !.conditions = ListObj(l.ref)]]

\* [self._load_transition(t) for t in state_machine_table['transitions']]
RECURSIVE LoadTransitions(_, _, _)
LoadTransitions(h, ts, i) ==
    IF i > Len(ts) THEN [heap |-> h, transitions |-> ts]
    ELSE LET r == LoadTransition(h, ts[i])
         IN  LoadTransitions(r.heap, [ts EXCEPT ![i] = r.transition], i + 1)

\* Machine.add_transition(**t) for every t: the library builds its own
\* Condition objects from the names in t['conditions'] at that moment
AddTransitions(h, ts) ==
    [i \in 1..Len(ts) |->
        [trigger |-> ts[i].trigger, source |-> ts[i].source, dest |-> ts[i].dest,
         conditions |-> h[ts[i].conditions.ref]]]

\* the condition names of transition i of the table (its list's content)
TableConditions(i) == heap[table.transitions[i].conditions.ref]

Init ==
    /\ \/ /\ table \in Tables
          /\ env = [resource |-> "inline", modules |-> AllResolved]
       \/ /\ table \in BrokenTables
          /\ env \in Envs
    /\ table0 = table
    /\ raised = "none"
    /\ stop_called = FALSE
    /\ heap = InitHeap
    /\ machine = <<>>
    /\ state = NoneVal
    /\ next_state = NoneVal
    /\ is_running = FALSE
    /\ pc = "new"
    /\ call_method = NoneVal
    /\ caller = NoneVal
    /\ tr = 0
    /\ ci = 0
    /\ nmachines = 0
    /\ requested = NoneVal
    /\ round = "none"
    /\ lookup_dest = NoneVal
    /\ evald = <<>>
    /\ steps = <<>>
    /\ state_before = NoneVal
    /\ stop_during = "no"
    /\ faulted = FALSE
    /\ succeeded = FALSE
    /\ mutated = 0

\* load_state_table(name): InvalidConfig when the yaml file cannot be opened
\* or parsed
LoadStateTable == IF env.resource \in {"unreadable", "unparsable"}
                  THEN "InvalidConfig" ELSE "none"

\* assert 'states' in table; assert 'transitions' in table
AssertKeys(t) == IF RequiredKeys \subseteq t.keys THEN "none" ELSE "AssertionError"

\* _load_state(state) for every state, in order: with no module load_module
\* raises inside the try before `s` is bound, and `return s` then fails; with
\* a module without on_enter the state is None
RECURSIVE LoadStates(_, _)
LoadStates(names, i) ==
    IF i > Len(names) THEN <<>>
    ELSE IF env.modules[names[i]] = "missing" THEN <<"UnboundLocalError">>
    ELSE IF env.modules[names[i]] = "no_on_enter"
         THEN <<NoneVal>> \o LoadStates(names, i + 1)
    ELSE <<names[i]>> \o LoadStates(names, i + 1)

\* the states the library knows: Machine(initial=None) adds a state of its own
\* called 'initial' and starts there
Registered(t) ==
    DeclaredStates \cup (IF t.initial = NoneVal THEN {"initial"} ELSE {})
InitialState(t) == IF t.initial = NoneVal THEN "initial" ELSE t.initial

\* Machine.__init__(states=...): add_states reads state.name of every entry
AddStates(states) ==
    IF \E k \in 1..Len(states) : states[k] = NoneVal THEN "AttributeError" ELSE "none"

\* what leaves __init__ without a machine
ConstructionErrors ==
    {"InvalidConfig", "AssertionError", "UnboundLocalError", "AttributeError"}

\* PanStateMachine(state_machine_table); also a further machine built from the
\* same table before the first one is run. A table given by name is loaded
\* anew each time, an inline table is the caller's own dict
Construct ==
    /\ pc \in {"new", "idle"}
    /\ nmachines < MaxMachines
    /\ LET t == IF env.resource = "inline" THEN table ELSE table0
           r == LoadTransitions(heap, t.transitions, 1)
           states == LoadStates(t.states, 1)
           loaded == [t EXCEPT !.transitions = r.transitions]
           fail(e, h, tb) ==
               /\ raised' = e
               /\ pc' = "failed"
               /\ heap' = h
               /\ table' = tb
               /\ UNCHANGED <<machine, state, next_state, is_running,
                              stop_called, nmachines>>
       IN  IF LoadStateTable # "none" THEN fail(LoadStateTable, heap, table)
           ELSE IF AssertKeys(t) # "none" THEN fail(AssertKeys(t), heap, table)
           ELSE IF Len(states) > 0 /\ states[Len(states)] = "UnboundLocalError"
           THEN fail("UnboundLocalError", r.heap, loaded)
           ELSE IF AddStates(states) # "none"
           THEN fail(AddStates(states), r.heap, loaded)
           ELSE /\ heap' = r.heap
                /\ table' = loaded
                /\ machine' = AddTransitions(r.heap, r.transitions)
                /\ state' = InitialState(t)
                /\ next_state' = NoneVal
                /\ is_running' = FALSE
                /\ stop_called' = FALSE
                /\ raised' = "none"
                /\ pc' = "idle"
                /\ nmachines' = nmachines + 1
    /\ UNCHANGED <<env, call_method, caller, tr, ci>>
    /\ UNCHANGED <<table0, requested, round, lookup_dest, evald, steps,
                   state_before, stop_during, faulted, succeeded, mutated>>

\* the caller assigns machine.next_state before run()
SetNextState(d) ==
    /\ pc = "idle"
    /\ next_state # d
    /\ next_state' = d
    /\ UNCHANGED <<heap, table, env, machine, raised, state, is_running,
                   stop_called, pc, call_method, caller, tr, ci>>
    /\ UNCHANGED hist

\* ------------------------------------------------------------ run() loop
\* run() that keeps the next_state the caller set
RunKeepNextState ==
    /\ pc = "idle"
    /\ is_running' = TRUE
    /\ stop_called' = FALSE
    /\ pc' = "loop"
    /\ requested' = next_state
    /\ UNCHANGED <<heap, table, env, machine, raised, state, next_state,
                   call_method, caller, tr, ci>>
    /\ UNCHANGED <<table0, nmachines, round, lookup_dest, evald, steps,
                   state_before, stop_during, faulted, succeeded, mutated>>

\* run() that assigns 'ready' to the state instead of to next_state
RunAssignsState ==
    /\ pc = "idle"
    /\ is_running' = TRUE
    /\ stop_called' = FALSE
    /\ state' = "ready"
    /\ pc' = "loop"
    /\ requested' = next_state
    /\ UNCHANGED <<heap, table, env, machine, raised, next_state, call_method,
                   caller, tr, ci>>
    /\ UNCHANGED <<table0, nmachines, round, lookup_dest, evald, steps,
                   state_before, stop_during, faulted, succeeded, mutated>>

\* run() that does not set _is_running before its loop
RunLeavesFlag ==
    /\ pc = "idle"
    /\ stop_called' = FALSE
    /\ next_state' = "ready"
    /\ pc' = "loop"
    /\ requested' = next_state
    /\ UNCHANGED <<heap, table, env, machine, raised, state, is_running,
                   call_method, caller, tr, ci>>
    /\ UNCHANGED <<table0, nmachines, round, lookup_dest, evald, steps,
                   state_before, stop_during, faulted, succeeded, mutated>>

\* run(), up to the loop: _is_running = True; next_state = 'ready'
Run ==
    /\ pc = "idle"
    /\ is_running' = TRUE
    /\ stop_called' = FALSE
    /\ next_state' = "ready"
    /\ pc' = "loop"
    /\ requested' = next_state
    /\ UNCHANGED <<heap, table, env, machine, raised, state, call_method,
                   caller, tr, ci>>
    /\ UNCHANGED <<table0, nmachines, round, lookup_dest, evald, steps,
                   state_before, stop_during, faulted, succeeded, mutated>>

\* the scan of _lookup_trigger taken from the last transition backwards
RECURSIVE ScanLast(_, _, _, _)
ScanLast(ts, s, d, i) ==
    IF i < 1 THEN "parking"
    ELSE IF ts[i].source = s /\ ts[i].dest = d THEN ts[i].trigger
    ELSE ScanLast(ts, s, d, i - 1)
LookupTriggerLast(ts, s, d) == ScanLast(ts, s, d, Len(ts))

\* the scan of _lookup_trigger that returns None when nothing matches
RECURSIVE ScanNoDefault(_, _, _, _)
ScanNoDefault(ts, s, d, i) ==
    IF i > Len(ts) THEN NoneVal
    ELSE IF ts[i].source = s /\ ts[i].dest = d THEN ts[i].trigger
    ELSE ScanNoDefault(ts, s, d, i + 1)
LookupTriggerNoDefault(ts, s, d) == ScanNoDefault(ts, s, d, 1)

\* _lookup_trigger: for state_info in table['transitions'] ... return 'parking'
RECURSIVE Scan(_, _, _, _)
Scan(ts, s, d, i) ==
    IF i > Len(ts) THEN "parking"
    ELSE IF ts[i].source = s /\ ts[i].dest = d THEN ts[i].trigger
    ELSE Scan(ts, s, d, i + 1)
LookupTrigger(ts, s, d) == Scan(ts, s, d, 1)

\* hasattr(self, name) for a trigger name: the library binds one method per
\* trigger of the transitions it was given
HasAttr(name) == \E i \in 1..Len(machine) : machine[i].trigger = name

\* a loop that never looks at is_running again
LoopConditionAlways == TRUE

\* while self.is_running
LoopCondition == is_running

\* the loop ends: run() returns to its caller
LoopExit ==
    /\ pc = "loop"
    /\ ~LoopCondition
    /\ pc' = "returned"
    /\ UNCHANGED <<heap, table, env, machine, raised, state, next_state,
                   is_running, stop_called, call_method, caller, tr, ci>>
    /\ UNCHANGED hist

\* one iteration up to the try: the lookup and the choice of the callable
LoopResolve ==
    /\ pc = "loop"
    /\ LoopCondition
    /\ LET m == LookupTrigger(table.transitions, state, next_state)
           c == IF m # NoneVal /\ HasAttr(m) THEN m ELSE "park"
       IN  /\ call_method' = m
           /\ caller' = c
              \* caller = self.park raises AttributeError outside the try
           /\ pc' = IF HasAttr(c) THEN "trigger" ELSE "raised"
           /\ raised' = IF HasAttr(c) THEN raised ELSE "AttributeError"
    /\ lookup_dest' = next_state
    /\ round' = IF round = "none" THEN "first" ELSE "later"
    /\ evald' = <<>>
    /\ steps' = <<>>
    /\ state_before' = state
    /\ stop_during' = "no"
    /\ faulted' = FALSE
    /\ succeeded' = FALSE
    /\ UNCHANGED <<heap, table, env, machine, state, next_state, is_running,
                   stop_called, tr, ci>>
    /\ UNCHANGED <<table0, nmachines, requested, mutated>>

\* stop_machine() that compares instead of assigning: self._is_running == False
StopMachineCallCompares ==
    /\ is_running' = is_running
    /\ stop_called' = TRUE

\* stop_machine(): self._is_running = False
StopMachineCall ==
    /\ is_running' = FALSE
    /\ stop_called' = TRUE

\* except Exception: self.stop_machine(); back to the loop test
Fault ==
    /\ StopMachineCall
    /\ pc' = "loop"
    /\ faulted' = TRUE
    /\ tr' = 0
    /\ ci' = 0

\* ----------------------------------------- caller(): the library's steps
\* the transitions of `caller` out of the current state, after index j
Candidates(j) ==
    {i \in 1..Len(machine) :
        i > j /\ machine[i].trigger = caller /\ machine[i].source = state}
NextCandidate(j) ==
    IF Candidates(j) = {} THEN 0
    ELSE CHOOSE i \in Candidates(j) : \A k \in Candidates(j) : i <= k

\* where Transition.execute starts for transition j: with no condition to
\* check it goes straight on
ExecuteStart(j) == IF Len(machine[j].conditions) = 0 THEN "before" ELSE "conditions"

\* Event.trigger: MachineError when the trigger has no transition from the
\* current state, else the first of them is tried
TriggerEvent ==
    /\ pc = "trigger"
    /\ IF NextCandidate(0) = 0
       THEN /\ Fault
       ELSE /\ tr' = NextCandidate(0)
            /\ ci' = 0
            /\ pc' = ExecuteStart(NextCandidate(0))
            /\ UNCHANGED <<is_running, stop_called, faulted>>
    /\ UNCHANGED <<heap, table, env, machine, raised, state, next_state,
                   call_method, caller>>
    /\ UNCHANGED <<table0, nmachines, requested, round, lookup_dest, evald,
                   steps, state_before, stop_during, succeeded, mutated>>

\* Condition.check: the transition goes on only if the condition returned True
Passed(r) == r = "true"

\* Transition.execute: the next condition of the transition is evaluated
EvalCondition(r) ==
    /\ pc = "conditions"
    /\ ci < Len(machine[tr].conditions)
    /\ LET c == machine[tr].conditions[ci + 1]
           ev == Append(evald, [c |-> c, r |-> r])
           st == Append(steps, c)
       IN  IF r = "raise"
           THEN /\ Fault
                /\ evald' = ev
                /\ steps' = st
           ELSE IF Passed(r)
           THEN /\ ci' = ci + 1
                /\ evald' = ev
                /\ steps' = st
                /\ pc' = IF ci + 1 = Len(machine[tr].conditions)
                         THEN "before" ELSE "conditions"
                /\ UNCHANGED <<tr, is_running, stop_called, faulted>>
           ELSE \* execute returns False: the trigger's next transition, if any
                IF NextCandidate(tr) = 0
                THEN /\ pc' = "loop"
                     /\ tr' = 0
                     /\ ci' = 0
                     /\ evald' = ev
                     /\ steps' = st
                     /\ UNCHANGED <<is_running, stop_called, faulted>>
                ELSE /\ tr' = NextCandidate(tr)
                     /\ ci' = 0
                     /\ evald' = <<>>
                     /\ steps' = <<>>
                     /\ pc' = ExecuteStart(NextCandidate(tr))
                     /\ UNCHANGED <<is_running, stop_called, faulted>>
    /\ UNCHANGED <<heap, table, env, machine, raised, state, next_state,
                   call_method, caller>>
    /\ UNCHANGED <<table0, nmachines, requested, round, lookup_dest,
                   state_before, stop_during, succeeded, mutated>>

\* the hook registered twice (machine-wide and again per transition)
BeforeStateChangeTwice == <<"before_state", "before_state">>

\* Machine(before_state_change='before_state'): the machine-wide callbacks the
\* library runs once the conditions have passed
BeforeStateChange == <<"before_state">>

\* Machine(after_state_change='after_state')
AfterStateChange == <<"after_state">>

Count(seq, x) == Cardinality({i \in 1..Len(seq) : seq[i] = x})

\* before_state(event_data) for every callback of before_state_change; it logs
BeforeState ==
    /\ pc = "before"
    /\ steps' = steps \o BeforeStateChange
    /\ pc' = "change_state"
    /\ UNCHANGED prog_but_pc
    /\ UNCHANGED <<stop_called, table0, nmachines, requested, round,
                   lookup_dest, evald, state_before, stop_during, faulted,
                   succeeded, mutated>>

\* Transition._change_state: the source's exit callbacks (none are
\* registered), then set_state(dest), before the enter callbacks run;
\* set_state looks the dest up and raises ValueError for a name that is not a
\* state of the machine
ChangeState ==
    /\ pc = "change_state"
    /\ IF machine[tr].dest \in Registered(table)
       THEN /\ state' = machine[tr].dest
            /\ pc' = "enter"
            /\ ci' = 0
            /\ steps' = Append(steps, "set_state")
            /\ UNCHANGED <<is_running, stop_called, tr, faulted>>
       ELSE /\ Fault
            /\ UNCHANGED <<state, steps>>
    /\ UNCHANGED <<heap, table, env, machine, raised, next_state, call_method,
                   caller>>
    /\ UNCHANGED <<table0, nmachines, requested, round, lookup_dest, evald,
                   state_before, stop_during, succeeded, mutated>>

\* _load_state: s.add_callback('enter', ...) three times, in this order
EnterCallbacks == <<"_update_graph", "_update_status", "on_enter">>

\* State.enter: after callback ci + 1 returned, the next one or the end
EnterNext ==
    /\ ci' = ci + 1
    /\ pc' = IF ci + 1 = Len(EnterCallbacks) THEN "after" ELSE "enter"

\* _update_graph(event_data): whatever fails inside is caught and logged
UpdateGraph(ok) ==
    /\ pc = "enter"
    /\ EnterCallbacks[ci + 1] = "_update_graph"
    /\ EnterNext
    /\ steps' = Append(steps, "_update_graph")
    /\ UNCHANGED <<heap, table, env, machine, raised, state, next_state,
                   is_running, stop_called, call_method, caller, tr>>
    /\ UNCHANGED <<table0, nmachines, requested, round, lookup_dest, evald,
                   state_before, stop_during, faulted, succeeded, mutated>>

\* _update_status(event_data): self.status(), with nothing catching its errors
UpdateStatus(ok) ==
    /\ pc = "enter"
    /\ EnterCallbacks[ci + 1] = "_update_status"
    /\ IF ok THEN /\ EnterNext
                  /\ UNCHANGED <<is_running, stop_called, tr, faulted>>
             ELSE Fault
    /\ steps' = Append(steps, "_update_status")
    /\ UNCHANGED <<heap, table, env, machine, raised, state, next_state,
                   call_method, caller>>
    /\ UNCHANGED <<table0, nmachines, requested, round, lookup_dest, evald,
                   state_before, stop_during, succeeded, mutated>>

\* what the on_enter function of a state module may do: assign next_state,
\* call stop_machine(), or raise
Behaviours ==
    {[next |-> n, stop |-> st, raise |-> FALSE] :
        n \in NextChoices \cup {"keep"}, st \in BOOLEAN}
    \cup {[next |-> "keep", stop |-> FALSE, raise |-> TRUE]}

InvocationSteps == {"trigger", "conditions", "before", "change_state", "enter", "after"}

\* the first call of stop_machine during an invocation is remembered
StopSeen ==
    IF stop_during # "no" \/ pc \notin InvocationSteps THEN stop_during
    ELSE IF pc \in {"enter", "after"} THEN "after_change" ELSE "before_change"

\* on_enter_<state>(event_data), the state module's on_enter
OnEnter(b) ==
    /\ pc = "enter"
    /\ EnterCallbacks[ci + 1] = "on_enter"
    /\ IF b.raise
       THEN /\ Fault
            /\ UNCHANGED <<next_state, stop_during>>
       ELSE /\ EnterNext
            /\ next_state' = IF b.next = "keep" THEN next_state ELSE b.next
            /\ IF b.stop THEN StopMachineCall /\ stop_during' = StopSeen
                         ELSE UNCHANGED <<is_running, stop_called, stop_during>>
            /\ UNCHANGED <<tr, faulted>>
    /\ steps' = Append(steps, "on_enter")
    /\ UNCHANGED <<heap, table, env, machine, raised, state, call_method,
                   caller>>
    /\ UNCHANGED <<table0, nmachines, requested, round, lookup_dest, evald,
                   state_before, succeeded, mutated>>

\* after_state(event_data) for every callback of after_state_change; then
\* execute returns True and caller() returns
AfterState ==
    /\ pc = "after"
    /\ steps' = steps \o AfterStateChange
    /\ succeeded' = TRUE
    /\ pc' = "loop"
    /\ tr' = 0
    /\ ci' = 0
    /\ UNCHANGED <<heap, table, env, machine, raised, state, next_state,
                   is_running, stop_called, call_method, caller>>
    /\ UNCHANGED <<table0, nmachines, requested, round, lookup_dest, evald,
                   state_before, stop_during, faulted, mutated>>

\* stop_machine() called from outside the loop (a supervisor) while run() is
\* in progress
StopMachine ==
    /\ pc \in InvocationSteps \cup {"loop"}
    /\ is_running
    /\ StopMachineCall
    /\ stop_during' = StopSeen
    /\ UNCHANGED <<heap, table, env, machine, raised, state, next_state, pc,
                   call_method, caller, tr, ci>>
    /\ UNCHANGED <<table0, nmachines, requested, round, lookup_dest, evald,
                   steps, state_before, faulted, succeeded, mutated>>

\* instead of running the machine it constructed, the caller edits the
\* condition list of transition i of its table
CallerAppendsCondition(i) ==
    /\ pc = "idle"
    /\ pc' = "edited"
    /\ mutated = 0
    /\ i \in 1..Len(table.transitions)
    /\ heap' = ListAppend(heap, table.transitions[i].conditions.ref, "is_dark")
    /\ mutated' = i
    /\ UNCHANGED <<table, env, machine, raised, state, next_state, is_running,
                   stop_called, call_method, caller, tr, ci>>
    /\ UNCHANGED <<table0, nmachines, requested, round, lookup_dest, evald,
                   steps, state_before, stop_during, faulted, succeeded>>

CallerRemovesCondition(i) ==
    /\ pc = "idle"
    /\ pc' = "edited"
    /\ mutated = 0
    /\ i \in 1..Len(table.transitions)
    /\ Len(TableConditions(i)) > 0
    /\ heap' = [heap EXCEPT ![table.transitions[i].conditions.ref] =
                    SubSeq(@, 1, Len(@) - 1)]
    /\ mutated' = i
    /\ UNCHANGED <<table, env, machine, raised, state, next_state, is_running,
                   stop_called, call_method, caller, tr, ci>>
    /\ UNCHANGED <<table0, nmachines, requested, round, lookup_dest, evald,
                   steps, state_before, stop_during, faulted, succeeded>>

Next ==
    \/ Construct
    \/ \E d \in DeclaredStates : SetNextState(d)
    \/ Run
    \/ LoopExit
    \/ LoopResolve
    \/ TriggerEvent
    \/ \E r \in {"true", "false", "raise"} : EvalCondition(r)
    \/ BeforeState
    \/ ChangeState
    \/ \E ok \in BOOLEAN : UpdateGraph(ok)
    \/ \E ok \in BOOLEAN : UpdateStatus(ok)
    \/ \E b \in Behaviours : OnEnter(b)
    \/ AfterState
    \/ StopMachine

Spec == Init /\ [][Next]_vars

\* the program together with a caller that edits its table's condition lists
NextMutate ==
    \/ Next
    \/ \E i \in 1..MaxTransitions : CallerAppendsCondition(i)
    \/ \E i \in 1..MaxTransitions : CallerRemovesCondition(i)

SpecMutate == Init /\ [][NextMutate]_vars

\* the steps run() and the invoked trigger take on their own
RunSteps ==
    \/ LoopExit
    \/ LoopResolve
    \/ TriggerEvent
    \/ \E r \in {"true", "false", "raise"} : EvalCondition(r)
    \/ BeforeState
    \/ ChangeState
    \/ \E ok \in BOOLEAN : UpdateGraph(ok)
    \/ \E ok \in BOOLEAN : UpdateStatus(ok)
    \/ \E b \in Behaviours : OnEnter(b)
    \/ AfterState

\* a caller that constructs and runs without assigning next_state first
\* (run() overwrites it), and a supervisor that may stop the machine
NextRun ==
    \/ Construct
    \/ Run
    \/ RunSteps
    \/ StopMachine

\* the program when the thread in run() keeps being scheduled and every
\* callback returns: the loop and an invocation in progress always take
\* their next step; what conditions and behaviours answer, and what callers
\* do, stays free
FairSpec == Init /\ [][NextRun]_vars /\ WF_vars(RunSteps)

\* ============================================================ properties
Transitions == 1..Len(table.transitions)
Constructed == pc \notin {"new", "failed"}
\* the transitions of the table from s to d, and the first-declared of them
Matches(s, d) ==
    {i \in Transitions :
        table.transitions[i].source = s /\ table.transitions[i].dest = d}
FirstMatch(s, d) == CHOOSE i \in Matches(s, d) : \A k \in Matches(s, d) : i <= k
BodySteps == {"before", "change_state", "enter", "after"}
SafetyPassedFirst ==
    /\ Len(evald) > 0
    /\ evald[1] = [c |-> "check_safety", r |-> "true"]

\* C1: during run(), a step changes self.state or reaches the before/exit/enter/
\* after part of a transition only if, for the transition being executed,
\* check_safety was the first condition evaluated and it returned True.
C1_SafetyBeforeTransition ==
    [][(pc \in InvocationSteps /\ (state' # state \/ pc' \in BodySteps))
          => SafetyPassedFirst']_vars

\* C1 witness: a transition with a second condition has changed the state
\* after check_safety and then is_dark passed
C1_Witness ==
    /\ pc = "enter"
    /\ state # state_before
    /\ Len(evald) = 2
    /\ evald[1].c = "check_safety"
    /\ evald[2].c = "is_dark"

\* C2: once a machine is constructed, every transition's condition list, in the
\* table and in the machine, starts with check_safety.
C2_CheckSafetyFirst ==
    Constructed =>
        \A i \in Transitions :
            /\ Len(TableConditions(i)) > 0
            /\ TableConditions(i)[1] = "check_safety"
            /\ Len(machine[i].conditions) > 0
            /\ machine[i].conditions[1] = "check_safety"

\* C2 witness: a table that declared one transition without conditions and one
\* with a single condition name has been loaded and run
C2_Witness ==
    /\ pc = "returned"
    /\ \E i, j \in Transitions :
        /\ table0.transitions[i].conditions.kind = "absent"
        /\ table0.transitions[j].conditions.kind = "str"
        /\ TableConditions(i) = <<"check_safety">>
        /\ TableConditions(j) = <<"check_safety", "is_dark">>

\* C3: after construction no two transitions hold the same list object, and a
\* caller's edit of one transition's list leaves every other transition's
\* conditions as they were.
C3_NoSharedConditionList ==
    /\ [](Constructed =>
            \A i, j \in Transitions :
                i # j => table.transitions[i].conditions.ref
                            # table.transitions[j].conditions.ref)
    /\ [][\A i \in Transitions :
            (mutated = 0 /\ mutated' = i) =>
                \A j \in Transitions :
                    j # i => TableConditions(j)' = TableConditions(j)]_vars

\* C3 witness: the caller's two transitions named one list object, and the
\* caller has edited the list of the first after construction
C3_Witness ==
    /\ mutated = 1
    /\ Len(table0.transitions) = 2
    /\ table0.transitions[1].conditions = ListA
    /\ table0.transitions[2].conditions = ListA
    /\ TableConditions(1) # TableConditions(2)

\* C4: when transitions match (state, next_state), the lookup returned the
\* trigger of the first-declared of them.
C4_FirstDeclaredWins ==
    (round # "none" /\ Matches(state_before, lookup_dest) # {}) =>
        call_method = table.transitions[FirstMatch(state_before, lookup_dest)].trigger

\* C4 witness: two transitions with different triggers matched the pair
C4_Witness ==
    /\ round # "none"
    /\ \E i, j \in Matches(state_before, lookup_dest) :
        /\ i < j
        /\ table.transitions[i].trigger # table.transitions[j].trigger
        /\ call_method = table.transitions[i].trigger

\* C5: when no transition matches (state, next_state), the lookup returned
\* "parking".
C5_ParkingWhenUnmatched ==
    (round # "none" /\ Matches(state_before, lookup_dest) = {}) =>
        call_method = "parking"

\* C5 witness: the lookup ran with next_state None or an undeclared name
C5_Witness ==
    /\ round # "none"
    /\ lookup_dest \in {NoneVal, "bogus"}
    /\ call_method = "parking"

\* C6: run() never propagates an exception to its caller.
C6_RunNeverRaises == pc # "raised"

\* C7: when run() has returned after an invocation that raised, the machine is
\* stopped and self.state is what it was before that invocation.
C7_NoPartialMutation ==
    (pc = "returned" /\ faulted) => (~is_running /\ state = state_before)

\* the trigger run() would invoke if the lookup were made for destination d
TriggerFor(s, d) ==
    IF Matches(s, d) # {} THEN table.transitions[FirstMatch(s, d)].trigger
    ELSE IF HasAttr("parking") THEN "parking" ELSE "park"

\* C8 as claimed: in the first iteration run() invokes the trigger of the
\* transition from the initial state to the next_state the caller had set.
C8_RunUsesRequested ==
    (round = "first" /\ pc = "trigger" /\ requested \in DeclaredStates
        /\ Matches(state, requested) # {})
    => caller = table.transitions[FirstMatch(state, requested)].trigger

\* C8 amended: run() overwrites next_state with 'ready', so the first lookup is
\* made for 'ready' whatever the caller had set, and the first trigger invoked
\* is the first-declared one from the initial state to 'ready', else the
\* fallback; when that invocation succeeded and run() has returned, the
\* machine is stopped in the dest of a transition of that trigger.
C8_RunStartsFromReady ==
    /\ (round = "first" /\ pc \in InvocationSteps \cup {"raised"}) => lookup_dest = "ready"
    /\ (round = "first" /\ pc = "trigger") => caller = TriggerFor(state, "ready")
    /\ (round = "first" /\ pc = "returned" /\ succeeded) =>
          /\ ~is_running
          /\ \E i \in 1..Len(machine) :
                /\ machine[i].trigger = caller
                /\ machine[i].source = state_before
                /\ machine[i].dest = state

\* C8 witness: the table of the example (park: ready -> parking, initial
\* ready), the caller asked for parking; park ran through the fallback, the
\* behaviour of parking called stop, and run() returned in parking
C8_Witness ==
    /\ pc = "returned"
    /\ round = "first"
    /\ succeeded
    /\ requested = "parking"
    /\ Len(table0.transitions) = 1
    /\ table0.transitions[1].trigger = "park"
    /\ table0.initial = "ready"
    /\ call_method = "parking"
    /\ caller = "park"
    /\ stop_during = "after_change"
    /\ state = "parking"
    /\ ~is_running

HookCount(h) == Count(steps, h)
ConditionNames == {"check_safety", "is_dark"}

ConditionFailed == Len(evald) > 0 /\ evald[Len(evald)].r = "false"

\* C10: a call of stop_machine during an invocation leaves run() inside that
\* invocation; the invocation then ends as it would have (it succeeded, it
\* raised, or a condition returned False); back at the loop test, the only
\* step run() takes is to return.
C10_StopIsCooperative ==
    [][/\ (stop_during = "no" /\ stop_during' # "no") => pc' \in InvocationSteps
       /\ (stop_during # "no" /\ pc \in InvocationSteps /\ pc' \notin InvocationSteps)
            => (pc' = "loop" /\ (succeeded' \/ faulted' \/ ConditionFailed'))
       /\ (stop_during # "no" /\ pc = "loop" /\ pc' # "loop") => pc' = "returned"
      ]_vars

\* C10 witness: stop_machine was called from outside before the state change
\* of a transition that then completed, and run() has returned
C10_Witness ==
    /\ stop_during = "before_change"
    /\ succeeded
    /\ state # state_before
    /\ pc = "returned"

\* C11: in every state reached after a machine was constructed, whatever the
\* run loop has done since, self.state is one of the names under the table's
\* `states` key.
C11_StateIsDeclared == Constructed => state \in DeclaredStates

\* the table cannot be read or parsed, or lacks one of the required keys
BadTable ==
    \/ env.resource \in {"unreadable", "unparsable"}
    \/ ~(RequiredKeys \subseteq table0.keys)

\* C12: for a table that cannot be read or parsed, or that lacks `states` or
\* `transitions`, no machine is ever created, and what leaves the constructor
\* is error.InvalidConfig.
C12_BadTableIsInvalidConfig ==
    BadTable =>
        /\ pc \in {"new", "failed"}
        /\ machine = <<>>
        /\ pc = "failed" => raised = "InvalidConfig"

\* the table has a transition whose source or dest is not a declared state
UndeclaredEndpoint ==
    \E i \in 1..Len(table0.transitions) :
        \/ table0.transitions[i].source \notin DeclaredStates
        \/ table0.transitions[i].dest \notin DeclaredStates

\* C13: a table with a transition whose source or dest is not declared is
\* rejected by the constructor with a configuration error: no machine is
\* built from it and run() is never entered.
C13_UndeclaredEndpointRejected ==
    UndeclaredEndpoint =>
        /\ pc \in {"new", "failed"}
        /\ pc = "failed" => raised = "InvalidConfig"

\* some declared state has no module, or a module without on_enter
Unresolved == \E s \in DeclaredStates : env.modules[s] # "on_enter"

\* C14: with a well-formed table, a state whose behaviour cannot be resolved
\* does not make the constructor raise: the machine is constructed.
C14_UnresolvedStateLoads ==
    (Unresolved /\ ~BadTable) => (pc # "failed" /\ raised = "none")

\* what ran after set_state in the current invocation
AfterSetState ==
    LET k == CHOOSE i \in 1..Len(steps) : steps[i] = "set_state"
    IN  SubSeq(steps, k + 1, Len(steps))

\* C15: once an invocation that entered a state is over, _update_graph,
\* _update_status and the state's on_enter have run, in this order, whether or
\* not the graph or the status update failed.
C15_EnterCallbacksBestEffort ==
    (pc \in {"after", "loop", "returned"} /\ Count(steps, "set_state") = 1) =>
        /\ Len(AfterSetState) >= Len(EnterCallbacks)
        /\ SubSeq(AfterSetState, 1, Len(EnterCallbacks)) = EnterCallbacks

\* C16: in every iteration run() has invoked one callable: the trigger the
\* lookup returned when the machine has a trigger of that name, else `park`;
\* a lookup without a match is followed by the invocation of `park`, and the
\* machine is still running when that invocation starts.
C16_OneCallablePerIteration ==
    round # "none" =>
        /\ pc \in InvocationSteps \cup {"loop", "returned"}
        /\ caller = (IF HasAttr(call_method) THEN call_method ELSE "park")
        /\ HasAttr(caller)
        /\ (Matches(state_before, lookup_dest) = {} /\ pc = "trigger"
                /\ stop_during = "no") => (caller = "park" /\ is_running)

\* every condition of the transition being executed returned True
AllConditionsPassed ==
    /\ tr # 0
    /\ Len(evald) = Len(machine[tr].conditions)
    /\ \A k \in 1..Len(evald) : evald[k].r = "true"

InRun == pc \in InvocationSteps \cup {"loop"}

\* C18: is_running is False in a machine that was constructed and not yet
\* run; it becomes True only in the step that enters run(); during run() it
\* is True as long as stop_machine has not been called; it is False when
\* run() has returned; and the loop starts a lookup and an invocation only
\* when it found is_running True.
C18_RunningFlag ==
    /\ [](pc = "idle" => ~is_running)
    /\ [][(~is_running /\ is_running') => (pc = "idle" /\ pc' = "loop")]_vars
    /\ []((InRun /\ ~stop_called) => is_running)
    /\ [](pc = "returned" => ~is_running)
    /\ [][(pc = "loop" /\ pc' \in {"trigger", "raised"}) => is_running]_vars

\* C18 witness: run() went through more than one iteration, the behaviour of
\* the state entered last called stop_machine, and run() has returned
C18_Witness ==
    /\ pc = "returned"
    /\ round = "later"
    /\ succeeded
    /\ stop_during = "after_change"
    /\ stop_called
    /\ ~is_running

\* C19 as claimed: with the loop scheduled fairly and every callback
\* returning, a run() that has reached its loop is eventually over (leaving
\* by an exception is not counted against it).
C19_RunTerminates == (pc = "loop") ~> (pc \in {"returned", "raised"})

\* C19 amended: run() has no bound of its own; under the same fairness, once
\* stop_machine has been called during run(), run() finishes the invocation
\* in progress and returns with is_running False.
C19_StoppedRunReturns == stop_called ~> (pc = "returned" /\ ~is_running)

\* C19 witness: check_safety returned False in an iteration after the first,
\* stop_machine was then called from outside, and run() has returned
C19_Witness ==
    /\ pc = "returned"
    /\ round = "later"
    /\ ConditionFailed
    /\ evald[Len(evald)].c = "check_safety"
    /\ stop_called
    /\ stop_during = "no"

\* the condition names the caller wrote for transition i of its table
OriginalConditions(i) ==
    LET c == table0.transitions[i].conditions
    IN  IF c.kind = "absent" THEN <<>>
        ELSE IF c.kind = "str" THEN <<c.s>>
        ELSE InitHeap[c.ref]

\* C20: constructing machines from an inline table leaves the table as the
\* caller wrote it, and every machine constructed from it, the second like
\* the first, has for each transition check_safety once, followed by the
\* conditions the caller wrote.
C20_InjectionIdempotent ==
    (env.resource = "inline" /\ Constructed) =>
        /\ table.transitions = table0.transitions
        /\ \A i \in Transitions :
              /\ machine[i].conditions = <<"check_safety">> \o OriginalConditions(i)
              /\ Count(machine[i].conditions, "check_safety") = 1

====
